---- MODULE Spec2Model ----
(***************************************************************************)
(* Model of vrmagic::CameraHandle (src/src/camera_handle.cpp).             *)
(*                                                                         *)
(* The handle is driven by one thread: the constructor runs initCamera and *)
(* startCamera, then the caller invokes grabFrameLeft / grabFrameRight.    *)
(* Every call into the VRmUsbCam library is recorded in hwlog together     *)
(* with the sensor that was active on the device when it was issued.  The  *)
(* device itself (its sensors, their property attributes, its format list) *)
(* is the environment; a library call may report failure at any time.      *)
(***************************************************************************)
EXTENDS Integers, Sequences, FiniteSets, TLC

\* ---------------------------------------------------------------- bounds
MaxVal == 1
MaxFormats == 2
MaxDevices == 2
MaxGrabs == 2
MaxDropped == 1
MaxPad == 1
MaxFailures == 1

\* ------------------------------------------------------ program constants
NumPorts == 4
BytesPerPixel == 3
TARGET_COLOR_FORMAT == "VRM_BGR_3X8"

GAIN == "VRM_PROPID_CAM_GAIN_MONOCHROME_I"
EXPOSURE == "VRM_PROPID_CAM_EXPOSURE_TIME_F"
Props == {GAIN, EXPOSURE}

Ports == 1..NumPorts
InvalidPort == NumPorts + 1
Values == 0..MaxVal
ColorFormats == {TARGET_COLOR_FORMAT, "VRM_GRAY_8"}

\* VRmPropAttribsI / VRmPropAttribsF as the device reports them
PropAttribs ==
  {a \in [m_min : Values, m_max : Values, m_default : Values] :
     a.m_min <= a.m_default /\ a.m_default <= a.m_max}

\* an attribs struct the library never filled in: any contents
GarbageAttribs == [m_min : Values, m_max : Values, m_default : Values]

VARIABLES
  pc,            \* position of the single thread of control
  given,         \* the Config handed to the constructor
  conf,          \* this->conf
  device,        \* this->device: 0, or the index of the opened device key
  targetFormat,  \* this->targetFormat
  img,           \* the caller's sensor_msgs::Image
  grabs,         \* grabFrame calls made so far
  frames,        \* caller: the number of grabFrame calls it makes
  deviceList,    \* device: the enumerated keys, TRUE = m_busy
  formatList,    \* device: the target format list of a port
  hwAttribs,     \* device: attributes of each property on each sensor
  hwSupported,   \* device: whether a sensor supports a property
  hwPad,         \* library: padding bytes per row of a converted image
  activeSensor,  \* device: the sensor selected by GRAB_SENSOR_PROPS_SELECT_E
  propValue,     \* device: current value of each property on each sensor
  streaming,     \* device: VRmUsbCamStart succeeded
  locked,        \* device: source images locked and not yet unlocked
  allocated,     \* library: images from VRmUsbCamNewImage not yet freed
  hwlog,         \* every library call issued so far, in order
  san            \* one call of checkAndSanitizeProperty taken on its own

vars == <<pc, given, conf, device, targetFormat, img, grabs, frames,
          deviceList, formatList, hwAttribs, hwSupported, hwPad,
          activeSensor, propValue, streaming, locked, allocated, hwlog,
          san>>

\* what no operation of the handle changes
fixed ==
  <<frames, deviceList, formatList, hwAttribs, hwSupported, hwPad, san>>

\* ------------------------------------------------------------ log entries
Call(fn, call, sensor, port, prop, value) ==
  [fn |-> fn, call |-> call, ok |-> TRUE, sensor |-> sensor,
   port |-> port, prop |-> prop, value |-> value, name |-> ""]

\* a call made on behalf of the named setting of conf
Named(c, name) == [c EXCEPT !.name = name]

Failed(c) == [c EXCEPT !.ok = FALSE]

\* VRM_CHECK: calls are issued in order; the first one that reports failure
\* is the last one issued.  failAt = 0: none fails.
Issue(calls, failAt) ==
  IF failAt = 0 THEN calls
  ELSE [i \in 1..failAt |-> IF i = failAt THEN Failed(calls[i]) ELSE calls[i]]

FailCount(log) == Cardinality({i \in DOMAIN log : ~log[i].ok})

\* Behaviours in which more than MaxFailures calls report failure are not
\* explored: after `log`, may a further call fail of its own accord?
MayFail(log) == FailCount(log) < MaxFailures

\* which of `calls`, issued after `log`, may be the failing one (0: none)
FailPoints(calls, log) == IF MayFail(log) THEN 0..Len(calls) ELSE {0}

\* the same for calls that name `port`: a port the device does not have
\* makes the first of them fail
PortFailPoints(calls, log, port) ==
  IF port \in 1..NumPorts THEN FailPoints(calls, log) ELSE {1}

\* ------------------------------------------------------------ the inputs
Format(i, c) == [m_color_format |-> c, m_width |-> i, m_height |-> 2]

FormatLists ==
  {[i \in DOMAIN cs |-> Format(i, cs[i])] :
     cs \in UNION {[1..n -> ColorFormats] : n \in 0..MaxFormats}}

DeviceLists == UNION {[1..n -> BOOLEAN] : n \in 0..MaxDevices}

\* targetFormat is not initialised by the constructor: any contents
UninitFormats ==
  {[m_color_format |-> c, m_width |-> 0, m_height |-> 0] : c \in ColorFormats}

NoImage ==
  [width |-> 0, height |-> 0, step |-> 0, size |-> 0, data |-> <<>>,
   stamp |-> 0, frame_id |-> ""]

FullRange == [m_min |-> 0, m_max |-> MaxVal, m_default |-> 0]

BaseConf ==
  [portLeft |-> 1, portRight |-> 2, gainLeft |-> 0, gainRight |-> 0,
   exposureLeft |-> 0, exposureRight |-> 0, setGain |-> TRUE,
   setExposure |-> TRUE, frameId |-> "camera"]

BaseInput ==
  [conf |-> BaseConf,
   devices |-> <<FALSE>>,
   formats |-> <<Format(1, TARGET_COLOR_FORMAT)>>,
   attribs |-> [p \in Props |-> [s \in Ports |-> FullRange]],
   supported |-> [p \in Props |-> [s \in Ports |-> TRUE]],
   sensor |-> 1,
   pad |-> 0,
   frames |-> 0]

\* The inputs explored: each family varies some of the inputs over all of
\* their small domain and keeps the others at BaseInput.
PortInputs ==
  {[BaseInput EXCEPT !.conf.portLeft = l, !.conf.portRight = r,
                     !.conf.setGain = g, !.conf.setExposure = e,
                     !.sensor = s] :
     l \in {1, 2, InvalidPort}, r \in {1, 2, InvalidPort},
     g \in BOOLEAN, e \in BOOLEAN, s \in {1, NumPorts}}

GainInputs ==
  {[BaseInput EXCEPT !.conf.setExposure = FALSE,
                     !.conf.gainLeft = v, !.conf.gainRight = v,
                     !.attribs[GAIN][1] = a1, !.attribs[GAIN][2] = a2] :
     v \in Values, a1 \in PropAttribs, a2 \in PropAttribs}

ExposureInputs ==
  {[BaseInput EXCEPT !.conf.setGain = FALSE,
                     !.conf.exposureLeft = v, !.conf.exposureRight = v,
                     !.attribs[EXPOSURE][1] = a1,
                     !.attribs[EXPOSURE][2] = a2] :
     v \in Values, a1 \in PropAttribs, a2 \in PropAttribs}

SupportInputs ==
  {[BaseInput EXCEPT !.supported = [p \in Props |->
                        [s \in Ports |-> IF s <= 2 THEN su[p][s] ELSE TRUE]],
                     !.conf.gainLeft = v, !.conf.exposureRight = v] :
     su \in [Props -> [1..2 -> BOOLEAN]], v \in Values}

FormatInputs ==
  {[BaseInput EXCEPT !.formats = f, !.frames = 1] : f \in FormatLists}

GrabInputs ==
  {[BaseInput EXCEPT !.conf.portRight = r, !.pad = p, !.frames = MaxGrabs] :
     r \in {1, 2}, p \in 0..MaxPad}

DeviceInputs == {[BaseInput EXCEPT !.devices = d] : d \in DeviceLists}

\* gain switched off, with every configured gain and every gain range of
\* the sensor that is active when the settings are sanitized
FlagInputs ==
  {[BaseInput EXCEPT !.conf.setGain = FALSE, !.conf.gainLeft = v,
                     !.attribs[GAIN][2] = a] :
     v \in Values, a \in PropAttribs}

Inputs ==
  PortInputs \cup GainInputs \cup ExposureInputs \cup SupportInputs
    \cup FormatInputs \cup DeviceInputs \cup GrabInputs \cup FlagInputs

NoCall ==
  [type |-> "", value |-> 0, attribs |-> FullRange, result |-> 0,
   done |-> FALSE]

Init ==
  /\ pc = "openDevice"
  /\ san = NoCall
  /\ \E in \in Inputs :
       /\ given = in.conf
       /\ conf = in.conf
       /\ deviceList = in.devices
       /\ formatList = in.formats
       /\ hwAttribs = in.attribs
       /\ hwSupported = in.supported
       /\ hwPad = in.pad
       /\ frames = in.frames
       /\ activeSensor = in.sensor
       /\ propValue = [p \in Props |-> [s \in Ports |-> in.attribs[p][s].m_default]]
  /\ device = 0
  /\ targetFormat \in UninitFormats
  /\ img = NoImage
  /\ grabs = 0
  /\ streaming = FALSE
  /\ locked = 0
  /\ allocated = 0
  /\ hwlog = <<>>

\* ------------------------------------------------------------- openDevice
\* The loop of openDevice from key i on, every call succeeding: a key that is
\* not busy is opened, which sets device and ends the loop.
\* A faulty loop that does not look at m_busy and opens the first key.
RECURSIVE OpenLoopAnyKey(_, _)
OpenLoopAnyKey(keys, i) ==
  IF i > Len(keys) THEN <<>>
  ELSE << Call("openDevice", "VRmUsbCamGetDeviceKeyListEntry", 0, 0, "", i),
          Call("openDevice", "VRmUsbCamOpenDevice", 0, 0, "", i),
          Call("openDevice", "VRmUsbCamFreeDeviceKey", 0, 0, "", i) >>

RECURSIVE OpenLoop(_, _)
OpenLoop(keys, i) ==
  IF i > Len(keys) THEN <<>>
  ELSE IF ~keys[i]
    THEN << Call("openDevice", "VRmUsbCamGetDeviceKeyListEntry", 0, 0, "", i),
            Call("openDevice", "VRmUsbCamOpenDevice", 0, 0, "", i),
            Call("openDevice", "VRmUsbCamFreeDeviceKey", 0, 0, "", i) >>
    ELSE << Call("openDevice", "VRmUsbCamGetDeviceKeyListEntry", 0, 0, "", i),
            Call("openDevice", "VRmUsbCamFreeDeviceKey", 0, 0, "", i) >>
           \o OpenLoop(keys, i + 1)

OpenDeviceCalls(keys) ==
  << Call("openDevice", "VRmUsbCamGetVersion", 0, 0, "", 0),
     Call("openDevice", "VRmUsbCamGetDeviceKeyListSize", 0, 0, "", 0) >>
  \o OpenLoop(keys, 1)

\* the handle held after the calls: the key whose open succeeded, else 0
OpenedDevice(issued) ==
  LET opens == {i \in DOMAIN issued :
                  issued[i].call = "VRmUsbCamOpenDevice" /\ issued[i].ok}
  IN IF opens = {} THEN 0 ELSE issued[CHOOSE i \in opens : TRUE].value

openDevice ==
  /\ pc = "openDevice"
  /\ \E failAt \in FailPoints(OpenDeviceCalls(deviceList), hwlog) :
       LET issued == Issue(OpenDeviceCalls(deviceList), failAt)
           dev == OpenedDevice(issued)
       IN /\ hwlog' = hwlog \o issued
          /\ device' = dev
          /\ pc' = IF failAt # 0 \/ dev = 0 THEN "exit" ELSE "activateLeft"
  /\ UNCHANGED <<given, conf, targetFormat, img, grabs, fixed, activeSensor,
                 propValue, streaming, locked, allocated>>

\* -------------------------------------------------------- setSensorActive
\* portnumToPropId: the select property of a port 1..4 (written here as the
\* port number).  For any other port the function logs and then flows off
\* its end without returning a value: the caller gets the id of some port,
\* or a value that is no select property (0), or the process traps (-1).
portnumToPropId(port) ==
  IF port \in Ports THEN {port} ELSE Ports \cup {0, -1}

\* setSensorActive(port) with sensor `cur` active: the possible results.
\* The return value of VRmUsbCamSetPropertyValueE is not looked at.
setSensorActive(port, cur, fn, log) ==
  LET write(id) == Call(fn, "VRmUsbCamSetPropertyValueE", cur, port,
                        "VRM_PROPID_GRAB_SENSOR_PROPS_SELECT_E", id)
      done(id) == [trap |-> FALSE, sensor |-> id, calls |-> <<write(id)>>]
      fail(id) == [trap |-> FALSE, sensor |-> cur,
                   calls |-> <<Failed(write(id))>>]
  IN UNION {
       IF id = -1
         THEN {[trap |-> TRUE, sensor |-> cur, calls |-> <<>>]}
       ELSE IF id \in Ports
         THEN {done(id)} \cup (IF MayFail(log) THEN {fail(id)} ELSE {})
       ELSE {fail(id)}
       : id \in portnumToPropId(port) }

\* initCamera: setSensorActive(conf.portLeft); setSensorActive(conf.portRight)
Activate(at, port, next) ==
  /\ pc = at
  /\ \E r \in setSensorActive(port, activeSensor, "initCamera", hwlog) :
       /\ activeSensor' = r.sensor
       /\ hwlog' = hwlog \o r.calls
       /\ pc' = IF r.trap THEN "exit" ELSE next
  /\ UNCHANGED <<given, conf, device, targetFormat, img, grabs, fixed,
                 propValue, streaming, locked, allocated>>

activateLeft == Activate("activateLeft", conf.portLeft, "activateRight")
activateRight == Activate("activateRight", conf.portRight, "getSourceFormat")

\* -------------------------------------------------------- getSourceFormat
getSourceFormat ==
  /\ pc = "getSourceFormat"
  /\ LET calls ==
           << Call("getSourceFormat", "VRmUsbCamGetSourceFormatEx",
                   activeSensor, conf.portLeft, "", 0),
              Call("getSourceFormat", "VRmUsbCamGetStringFromColorFormat",
                   activeSensor, 0, "", 0) >>
     IN \E failAt \in PortFailPoints(calls, hwlog, conf.portLeft) :
          /\ hwlog' = hwlog \o Issue(calls, failAt)
          /\ pc' = IF failAt # 0 THEN "exit" ELSE "setTargetFormat"
  /\ UNCHANGED <<given, conf, device, targetFormat, img, grabs, fixed,
                 activeSensor, propValue, streaming, locked, allocated>>

\* -------------------------------------------------------- setTargetFormat
\* The entries the loop queries from index i on, every call succeeding: it
\* stops after the first entry whose color format is TARGET_COLOR_FORMAT.
\* A faulty loop that lacks the break of line 139 and queries every entry.
RECURSIVE FormatLoopNoBreak(_, _)
FormatLoopNoBreak(list, i) ==
  IF i > Len(list) THEN <<>> ELSE <<i>> \o FormatLoopNoBreak(list, i + 1)

RECURSIVE FormatLoop(_, _)
FormatLoop(list, i) ==
  IF i > Len(list) THEN <<>>
  ELSE <<i>> \o (IF list[i].m_color_format = TARGET_COLOR_FORMAT
                   THEN <<>> ELSE FormatLoop(list, i + 1))

SetTargetFormatCalls(list, port, sensor) ==
  LET idx == FormatLoop(list, 1)
  IN << Call("setTargetFormat", "VRmUsbCamGetTargetFormatListSizeEx2",
             sensor, port, "", 0) >>
     \o [k \in DOMAIN idx |->
           Call("setTargetFormat", "VRmUsbCamGetTargetFormatListEntryEx2",
                sensor, port, "", idx[k])]
     \o << Call("setTargetFormat", "VRmUsbCamGetStringFromColorFormat",
                sensor, 0, "", 0) >>

\* targetFormat after the calls issued: the last entry fetched, if any
FetchedFormat(list, issued, old) ==
  LET got == {i \in DOMAIN issued :
                /\ issued[i].call = "VRmUsbCamGetTargetFormatListEntryEx2"
                /\ issued[i].ok}
      last == CHOOSE i \in got : \A j \in got : j <= i
  IN IF got = {} THEN old ELSE list[issued[last].value]

\* A faulty setProperties that applies the gain whatever conf.setGain says.
AfterSanitizeUngated(c) == "setGainLeft"

\* where the constructor goes once the four settings are sanitized
AfterSanitize(c) ==
  IF c.setGain THEN "setGainLeft"
  ELSE IF c.setExposure THEN "setExposureLeft" ELSE "startCamera"

AfterGain(c) == IF c.setExposure THEN "setExposureLeft" ELSE "startCamera"

setTargetFormat ==
  /\ pc = "setTargetFormat"
  /\ LET calls == SetTargetFormatCalls(formatList, conf.portLeft, activeSensor)
     IN \E failAt \in PortFailPoints(calls, hwlog, conf.portLeft) :
          LET issued == Issue(calls, failAt)
              fmt == FetchedFormat(formatList, issued, targetFormat)
          IN /\ hwlog' = hwlog \o issued
             /\ targetFormat' = fmt
             /\ pc' = IF failAt # 0 \/ fmt.m_color_format # TARGET_COLOR_FORMAT
                        THEN "exit" ELSE "sanitizeGainLeft"
  /\ UNCHANGED <<given, conf, device, img, grabs, fixed, activeSensor,
                 propValue, streaming, locked, allocated>>

\* ----------------------------------------------- checkAndSanitizeProperty
\* A faulty range test that clamps to the nearer limit instead of taking
\* the default.
checkAndSanitizePropertyClamped(value, attribs) ==
  IF value < attribs.m_min THEN attribs.m_min
  ELSE IF value > attribs.m_max THEN attribs.m_max
  ELSE value

\* The value a setting holds after the range test against attribs.
checkAndSanitizeProperty(value, attribs) ==
  IF value < attribs.m_min \/ value > attribs.m_max
    THEN attribs.m_default
    ELSE value

AttribsCall(prop) ==
  IF prop = GAIN THEN "VRmUsbCamGetPropertyAttribsI"
                 ELSE "VRmUsbCamGetPropertyAttribsF"

\* One call checkAndSanitizeProperty(conf.<name>, prop, "<name>").  No
\* sensor is selected first.  VRmUsbCamGetPropertyInfo is checked; the
\* result of VRmUsbCamGetPropertyAttribs is not, so after a failure the
\* range test reads a struct that was never filled in.
Sanitize(at, name, prop, next) ==
  /\ pc = at
  /\ LET info == Named(Call("checkAndSanitizeProperty",
                            "VRmUsbCamGetPropertyInfo",
                            activeSensor, 0, prop, 0), name)
         attr == Named(Call("checkAndSanitizeProperty", AttribsCall(prop),
                            activeSensor, 0, prop, 0), name)
     IN \/ /\ MayFail(hwlog)
           /\ hwlog' = hwlog \o <<Failed(info)>>
           /\ pc' = "exit"
           /\ conf' = conf
        \/ /\ hwlog' = hwlog \o <<info, attr>>
           /\ conf' = [conf EXCEPT ![name] =
                         checkAndSanitizeProperty(conf[name],
                            hwAttribs[prop][activeSensor])]
           /\ pc' = next
        \/ \E garbage \in GarbageAttribs :
             /\ MayFail(hwlog)
             /\ hwlog' = hwlog \o <<info, Failed(attr)>>
             /\ conf' = [conf EXCEPT ![name] =
                           checkAndSanitizeProperty(conf[name], garbage)]
             /\ pc' = next
  /\ UNCHANGED <<given, device, targetFormat, img, grabs, fixed,
                 activeSensor, propValue, streaming, locked, allocated>>

\* The bool overload: value is a bool, compared as 0 / 1 against the
\* VRmBOOL fields; the assignment of m_default converts it back to bool.
checkAndSanitizePropertyB(value, attribs) ==
  IF value < attribs.m_min \/ value > attribs.m_max
    THEN (IF attribs.m_default # 0 THEN 1 ELSE 0)
    ELSE value

\* checkAndSanitizeConfig
sanitizeGainLeft ==
  Sanitize("sanitizeGainLeft", "gainLeft", GAIN, "sanitizeGainRight")
sanitizeGainRight ==
  Sanitize("sanitizeGainRight", "gainRight", GAIN, "sanitizeExposureLeft")
sanitizeExposureLeft ==
  Sanitize("sanitizeExposureLeft", "exposureLeft", EXPOSURE,
           "sanitizeExposureRight")
sanitizeExposureRight ==
  Sanitize("sanitizeExposureRight", "exposureRight", EXPOSURE,
           AfterSanitize(conf))

\* ------------------------------------------------------ setSingleProperty
SetCall(prop) ==
  IF prop = GAIN THEN "VRmUsbCamSetPropertyValueI"
                 ELSE "VRmUsbCamSetPropertyValueF"

\* A faulty setSingleProperty that writes the value without looking at
\* `supported`.
SetSinglePropertyCallsUnguarded(value, prop, port, sensor, supported, name) ==
  LET c(call, v) == Named(Call("setSingleProperty", call, sensor, port,
                               prop, v), name)
  IN <<c("VRmUsbCamGetPropertySupported", 0), c(SetCall(prop), value),
       c("VRmUsbCamGetPropertyInfo", 0)>>

\* The checked calls of setSingleProperty(value, prop, port) once the sensor
\* `sensor` is the active one and reports `supported`.
SetSinglePropertyCalls(value, prop, port, sensor, supported, name) ==
  LET c(call, v) == Named(Call("setSingleProperty", call, sensor, port,
                               prop, v), name)
  IN <<c("VRmUsbCamGetPropertySupported", 0)>>
     \o (IF supported THEN <<c(SetCall(prop), value)>> ELSE <<>>)
     \o <<c("VRmUsbCamGetPropertyInfo", 0)>>

\* the value writes among the calls issued that took effect
WrittenValue(issued, old) ==
  LET ws == {i \in DOMAIN issued :
               /\ issued[i].call \in {SetCall(GAIN), SetCall(EXPOSURE)}
               /\ issued[i].ok}
  IN IF ws = {} THEN old ELSE issued[CHOOSE i \in ws : TRUE].value

SetSingle(at, name, prop, port, next) ==
  /\ pc = at
  /\ \E r \in setSensorActive(port, activeSensor, "setSingleProperty", hwlog) :
       IF r.trap
         THEN /\ pc' = "exit"
              /\ hwlog' = hwlog \o r.calls
              /\ UNCHANGED <<activeSensor, propValue>>
         ELSE LET calls == SetSinglePropertyCalls(conf[name], prop, port,
                             r.sensor, hwSupported[prop][r.sensor], name)
              IN \E failAt \in FailPoints(calls, hwlog \o r.calls) :
                   LET issued == Issue(calls, failAt)
                   IN /\ hwlog' = hwlog \o r.calls \o issued
                      /\ activeSensor' = r.sensor
                      /\ propValue' =
                           [propValue EXCEPT ![prop][r.sensor] =
                              WrittenValue(issued, propValue[prop][r.sensor])]
                      /\ pc' = IF failAt # 0 THEN "exit" ELSE next
  /\ UNCHANGED <<given, conf, device, targetFormat, img, grabs, fixed,
                 streaming, locked, allocated>>

\* setGain / setExposure through setPropertyLeftAndRight
setGainLeft ==
  SetSingle("setGainLeft", "gainLeft", GAIN, conf.portLeft, "setGainRight")
setGainRight ==
  SetSingle("setGainRight", "gainRight", GAIN, conf.portRight,
            AfterGain(conf))
setExposureLeft ==
  SetSingle("setExposureLeft", "exposureLeft", EXPOSURE, conf.portLeft,
            "setExposureRight")
setExposureRight ==
  SetSingle("setExposureRight", "exposureRight", EXPOSURE, conf.portRight,
            "startCamera")

\* ------------------------------------------------------------ startCamera
\* A faulty startCamera that clears the negotiated format before starting.
startCameraResettingFormat ==
  /\ pc = "startCamera"
  /\ hwlog' = hwlog \o
       << Call("startCamera", "VRmUsbCamResetFrameCounter",
               activeSensor, 0, "", 0),
          Call("startCamera", "VRmUsbCamStart", activeSensor, 0, "", 0) >>
  /\ streaming' = TRUE
  /\ pc' = "running"
  /\ targetFormat' = [targetFormat EXCEPT !.m_width = 0, !.m_height = 0]
  /\ UNCHANGED <<given, conf, device, img, grabs, fixed, activeSensor,
                 propValue, locked, allocated>>

startCamera ==
  /\ pc = "startCamera"
  /\ LET calls == << Call("startCamera", "VRmUsbCamResetFrameCounter",
                          activeSensor, 0, "", 0),
                     Call("startCamera", "VRmUsbCamStart",
                          activeSensor, 0, "", 0) >>
     IN \E failAt \in FailPoints(calls, hwlog) :
          /\ hwlog' = hwlog \o Issue(calls, failAt)
          /\ streaming' = (failAt = 0)
          /\ pc' = IF failAt # 0 THEN "exit" ELSE "running"
  /\ UNCHANGED <<given, conf, device, targetFormat, img, grabs, fixed,
                 activeSensor, propValue, locked, allocated>>


\* -------------------------------------------------------------- grabFrame
\* A faulty copy that reads the converted image as if its rows were packed.
RepackContiguous(width, height, pitch) ==
  [j \in 1..(height * width * BytesPerPixel) |-> j - 1]

\* The converted image holds its rows pitch bytes apart; byte k of its
\* buffer is written k here.  The two loops of grabFrame store at output
\* offset y * width * 3 + x the buffer byte at offset y * pitch + x.
Repack(width, height, pitch) ==
  [j \in 1..(height * width * BytesPerPixel) |->
     LET y == (j - 1) \div (width * BytesPerPixel)
         x == (j - 1) % (width * BytesPerPixel)
     IN y * pitch + x]

\* A faulty fill that takes the row length of the converted image as step.
FilledImagePitchStep(fmt, pitch, triggerTime, frameId) ==
  [width |-> fmt.m_width,
   height |-> fmt.m_height,
   step |-> pitch,
   size |-> fmt.m_height * pitch,
   data |-> [j \in 1..(fmt.m_height * pitch) |-> j - 1],
   stamp |-> triggerTime,
   frame_id |-> frameId]

\* the image message as grabFrame fills it in
FilledImage(fmt, pitch, triggerTime, frameId) ==
  [width |-> fmt.m_width,
   height |-> fmt.m_height,
   step |-> fmt.m_width * BytesPerPixel,
   size |-> fmt.m_height * (fmt.m_width * BytesPerPixel),
   data |-> Repack(fmt.m_width, fmt.m_height, pitch),
   stamp |-> triggerTime,
   frame_id |-> frameId]

GrabFrameCalls(port, sensor, framesDropped) ==
  LET c(call, v) == Call("grabFrame", call, sensor, port, "", v)
  IN << c("VRmUsbCamLockNextImageEx2", framesDropped),
        c("VRmUsbCamNewImage", 0),
        c("VRmUsbCamConvertImage", 0),
        c("VRmUsbCamFreeImage", 0),
        c("VRmUsbCamUnlockNextImage", 0) >>

Succeeded(issued, call) ==
  \E i \in DOMAIN issued : issued[i].call = call /\ issued[i].ok

\* A faulty grabFrame that hands out an empty frame after a failed lock.
grabFrameBlankOnFailure(port) ==
  /\ pc = "running"
  /\ grabs < frames
  /\ grabs' = grabs + 1
  /\ hwlog' = hwlog \o Issue(GrabFrameCalls(port, activeSensor, 0), 1)
  /\ img' = [NoImage EXCEPT !.stamp = grabs + 1, !.frame_id = conf.frameId]
  /\ UNCHANGED <<pc, locked, allocated>>
  /\ UNCHANGED <<given, conf, device, targetFormat, fixed, activeSensor,
                 propValue, streaming>>

\* grabFrame(port, img, triggerTime): the trigger time is the number of the
\* call.  A failed lock is logged and the function returns; every later
\* call is under VRM_CHECK.
grabFrame(port) ==
  /\ pc = "running"
  /\ grabs < frames
  /\ grabs' = grabs + 1
  /\ \/ /\ port \in Ports => MayFail(hwlog)
        /\ hwlog' = hwlog \o Issue(GrabFrameCalls(port, activeSensor, 0), 1)
        /\ UNCHANGED <<pc, img, locked, allocated>>
     \/ /\ port \in Ports
        /\ \E framesDropped \in 0..MaxDropped :
           \E failAt \in FailPoints(GrabFrameCalls(port, activeSensor, 0),
                                    hwlog) \ {1} :
             LET issued == Issue(GrabFrameCalls(port, activeSensor,
                                                framesDropped), failAt)
                 pitch == targetFormat.m_width * BytesPerPixel + hwPad
             IN /\ hwlog' = hwlog \o issued
                /\ locked' =
                     IF Succeeded(issued, "VRmUsbCamUnlockNextImage")
                       THEN locked ELSE locked + 1
                /\ allocated' =
                     IF Succeeded(issued, "VRmUsbCamNewImage")
                        /\ ~Succeeded(issued, "VRmUsbCamFreeImage")
                       THEN allocated + 1 ELSE allocated
                /\ img' =
                     IF Succeeded(issued, "VRmUsbCamConvertImage")
                       THEN FilledImage(targetFormat, pitch, grabs + 1,
                                        conf.frameId)
                       ELSE img
                /\ pc' = IF failAt # 0 THEN "exit" ELSE "running"
  /\ UNCHANGED <<given, conf, device, targetFormat, fixed, activeSensor,
                 propValue, streaming>>

grabFrameLeft == grabFrame(conf.portLeft)
grabFrameRight == grabFrame(conf.portRight)

\* ------------------------------------------------------ the specification
Next ==
  \/ openDevice
  \/ activateLeft
  \/ activateRight
  \/ getSourceFormat
  \/ setTargetFormat
  \/ sanitizeGainLeft
  \/ sanitizeGainRight
  \/ sanitizeExposureLeft
  \/ sanitizeExposureRight
  \/ setGainLeft
  \/ setGainRight
  \/ setExposureLeft
  \/ setExposureRight
  \/ startCamera
  \/ grabFrameLeft
  \/ grabFrameRight

Spec == Init /\ [][Next]_vars

\* ------------------------------ checkAndSanitizeProperty taken on its own
\* The three overloads applied to every value and every attribs struct of a
\* small domain: int and float values around 0..MaxVal, bool values 0 / 1.
\* The fields of VRmPropAttribsB are VRmBOOL, reported by the library as
\* 0 or 1.
SanValues == (0 - 1)..(MaxVal + 1)

SanInputs ==
  {[type |-> t, value |-> v, attribs |-> a, result |-> v, done |-> FALSE] :
     t \in {"int", "float"}, v \in SanValues,
     a \in [m_min : SanValues, m_max : SanValues, m_default : SanValues]}
  \cup
  {[type |-> "bool", value |-> v, attribs |-> a, result |-> v, done |-> FALSE] :
     v \in {0, 1}, a \in [m_min : {0, 1}, m_max : {0, 1}, m_default : {0, 1}]}

InitSanitize ==
  /\ san \in SanInputs
  /\ pc = "checkAndSanitizeProperty"
  /\ given = BaseConf
  /\ conf = BaseConf
  /\ device = 1
  /\ targetFormat = Format(1, TARGET_COLOR_FORMAT)
  /\ img = NoImage
  /\ grabs = 0
  /\ frames = 0
  /\ deviceList = BaseInput.devices
  /\ formatList = BaseInput.formats
  /\ hwAttribs = BaseInput.attribs
  /\ hwSupported = BaseInput.supported
  /\ hwPad = 0
  /\ activeSensor = 1
  /\ propValue = [p \in Props |-> [s \in Ports |-> 0]]
  /\ streaming = FALSE
  /\ locked = 0
  /\ allocated = 0
  /\ hwlog = <<>>

SanitizeCall(type, result) ==
  /\ pc = "checkAndSanitizeProperty"
  /\ san.type = type
  /\ ~san.done
  /\ san' = [san EXCEPT !.done = TRUE, !.result = result]
  /\ UNCHANGED <<pc, given, conf, device, targetFormat, img, grabs, frames,
                 deviceList, formatList, hwAttribs, hwSupported, hwPad,
                 activeSensor, propValue, streaming, locked, allocated,
                 hwlog>>

sanitizeInt ==
  SanitizeCall("int", checkAndSanitizeProperty(san.value, san.attribs))
sanitizeFloat ==
  SanitizeCall("float", checkAndSanitizeProperty(san.value, san.attribs))
sanitizeBool ==
  SanitizeCall("bool", checkAndSanitizePropertyB(san.value, san.attribs))

NextSanitize == sanitizeInt \/ sanitizeFloat \/ sanitizeBool

SpecSanitize == InitSanitize /\ [][NextSanitize]_vars

\* ================================================================ claims
\* the calls of hwlog, by kind
AttribsCalls == {AttribsCall(GAIN), AttribsCall(EXPOSURE)}
SetCalls == {SetCall(GAIN), SetCall(EXPOSURE)}
LeftNames == {"gainLeft", "exposureLeft"}
RightNames == {"gainRight", "exposureRight"}

\* the functions the constructor runs
ConstructorFns ==
  {"openDevice", "initCamera", "getSourceFormat", "setTargetFormat",
   "checkAndSanitizeProperty", "setSingleProperty", "startCamera"}

\* C1: every property operation for a port's setting runs with that port as
\* the active sensor: the range of gainLeft / exposureLeft is read with
\* conf.portLeft active, that of gainRight / exposureRight with
\* conf.portRight active, and a value for port P is written with P active.
C1_TargetPortActive ==
  \A i \in DOMAIN hwlog :
    LET e == hwlog[i]
    IN /\ (e.call \in AttribsCalls /\ e.name \in LeftNames)
            => e.sensor = conf.portLeft
       /\ (e.call \in AttribsCalls /\ e.name \in RightNames)
            => e.sensor = conf.portRight
       /\ (e.call \in SetCalls) => e.sensor = e.port

\* C2: checkAndSanitizeProperty leaves a value inside [m_min, m_max] as it
\* is and replaces a value outside it by exactly m_default, in the int, the
\* float and the bool overload.
C2_SanitizeInRangeOrDefault ==
  san.done =>
    /\ (san.attribs.m_min <= san.value /\ san.value <= san.attribs.m_max)
         => san.result = san.value
    /\ (san.value < san.attribs.m_min \/ san.value > san.attribs.m_max)
         => san.result = san.attribs.m_default

\* a value outside the range has been replaced by a different default
C2_Witness ==
  /\ san.done
  /\ san.type = "float"
  /\ san.value > san.attribs.m_max
  /\ san.attribs.m_min <= san.attribs.m_max
  /\ san.result = san.attribs.m_default
  /\ san.result # san.value

\* C3: with setGain, a configured gain outside the range the device reports
\* for its port is never written to that port: the value written is the
\* default the device reports for it.
C3_OutOfRangeGainWrittenAsDefault ==
  \A i \in DOMAIN hwlog :
    LET e == hwlog[i]
    IN (/\ e.call = SetCall(GAIN)
        /\ e.ok
        /\ given.setGain
        /\ e.port \in Ports
        /\ e.sensor = e.port
        /\ \/ given[e.name] < hwAttribs[GAIN][e.port].m_min
           \/ given[e.name] > hwAttribs[GAIN][e.port].m_max)
         => e.value = hwAttribs[GAIN][e.port].m_default

\* a log position at which setSingleProperty was told that the active
\* sensor does not support the property
Unsupported(i) ==
  /\ hwlog[i].call = "VRmUsbCamGetPropertySupported"
  /\ hwlog[i].ok
  /\ ~hwSupported[hwlog[i].prop][hwlog[i].sensor]

\* the process ended inside the function that issued call i, right after
\* the call that followed it
EndedAfter(i) == pc = "exit" /\ Len(hwlog) = i + 1

\* C4 as stated: a property reported unsupported is not written, and
\* setSingleProperty does not terminate the process.
C4_UnsupportedNeverTerminates ==
  \A i \in DOMAIN hwlog :
    Unsupported(i) =>
      /\ \A j \in DOMAIN hwlog :
           (j > i /\ hwlog[j].name = hwlog[i].name)
             => hwlog[j].call \notin SetCalls
      /\ ~EndedAfter(i)

\* the labels of the applications of settings, and the one that follows each
ApplyLabels ==
  {"setGainLeft", "setGainRight", "setExposureLeft", "setExposureRight"}

Following(label, c) ==
  CASE label = "setGainLeft" -> "setGainRight"
    [] label = "setGainRight" ->
         (IF c.setExposure THEN "setExposureLeft" ELSE "startCamera")
    [] label = "setExposureLeft" -> "setExposureRight"
    [] label = "setExposureRight" -> "startCamera"

\* the calls one step adds to hwlog
Added == SubSeq(hwlog', Len(hwlog) + 1, Len(hwlog'))

\* C4, amended: a setSingleProperty call that is told the property is
\* unsupported writes no value, leaves every property value of the device
\* and the configuration as they were, and hands over to the application
\* that follows it; it terminates the process only when the
\* VRmUsbCamGetPropertyInfo call it makes for the warning reports failure.
C4_UnsupportedSkipsWrite ==
  [][(/\ pc \in ApplyLabels
      /\ \E k \in DOMAIN Added :
           /\ Added[k].call = "VRmUsbCamGetPropertySupported"
           /\ Added[k].ok
           /\ ~hwSupported[Added[k].prop][Added[k].sensor])
     => /\ \A k \in DOMAIN Added : Added[k].call \notin SetCalls
        /\ propValue' = propValue
        /\ conf' = conf
        /\ IF Added[Len(Added)].ok
             THEN pc' = Following(pc, conf)
             ELSE /\ pc' = "exit"
                  /\ Added[Len(Added)].call = "VRmUsbCamGetPropertyInfo"]_vars

\* gainLeft was reported unsupported and skipped, gainRight was written
\* after it and the camera was started
C4_Witness ==
  /\ pc = "running"
  /\ \E i \in DOMAIN hwlog :
       /\ Unsupported(i)
       /\ hwlog[i].name = "gainLeft"
       /\ \E j \in DOMAIN hwlog :
            /\ j > i
            /\ hwlog[j].call = SetCall(GAIN)
            /\ hwlog[j].ok
            /\ hwlog[j].name = "gainRight"

\* C5: setSensorActive never writes the sensor select property for a port
\* outside 1..4.
C5_InvalidPortNeverWritten ==
  \A i \in DOMAIN hwlog :
    hwlog[i].call = "VRmUsbCamSetPropertyValueE" => hwlog[i].port \in Ports

\* C6: a library call of the constructor that reports failure is the last
\* call issued: the process has terminated.
C6_FailedCallTerminates ==
  \A i \in DOMAIN hwlog :
    (hwlog[i].fn \in ConstructorFns /\ ~hwlog[i].ok)
      => (i = Len(hwlog) /\ pc = "exit")

\* C7: after a failed lock grabFrame does not return: the process has
\* terminated.
C7_FailedLockTerminates ==
  \A i \in DOMAIN hwlog :
    (hwlog[i].call = "VRmUsbCamLockNextImageEx2" /\ ~hwlog[i].ok)
      => pc = "exit"

\* C8: whenever grabFrame has returned or has terminated the process, no
\* source image is still locked and no converted image is still allocated.
C8_BuffersReleased ==
  (\E i \in DOMAIN hwlog : hwlog[i].fn = "grabFrame")
    => (locked = 0 /\ allocated = 0)

\* the format list holds the desired color format; its first such entry
HasTargetFormat ==
  \E i \in DOMAIN formatList :
    formatList[i].m_color_format = TARGET_COLOR_FORMAT

FirstTargetFormat ==
  CHOOSE i \in DOMAIN formatList :
    /\ formatList[i].m_color_format = TARGET_COLOR_FORMAT
    /\ \A j \in 1..(i - 1) :
         formatList[j].m_color_format # TARGET_COLOR_FORMAT

\* setTargetFormat has returned to initCamera
FormatSelected ==
  pc \in {"sanitizeGainLeft", "sanitizeGainRight", "sanitizeExposureLeft",
          "sanitizeExposureRight", "setGainLeft", "setGainRight",
          "setExposureLeft", "setExposureRight", "startCamera", "running"}

\* C9: over a format list that holds the desired color format,
\* setTargetFormat queries no entry after the first one that has it, and
\* when it returns targetFormat is that entry.
C9_FirstMatchSelected ==
  HasTargetFormat =>
    /\ \A i \in DOMAIN hwlog :
         hwlog[i].call = "VRmUsbCamGetTargetFormatListEntryEx2"
           => hwlog[i].value <= FirstTargetFormat
    /\ FormatSelected => targetFormat = formatList[FirstTargetFormat]

\* the second of two entries was selected, and frames are being grabbed
C9_Witness ==
  /\ pc = "running"
  /\ Len(formatList) = 2
  /\ formatList[1].m_color_format # TARGET_COLOR_FORMAT
  /\ targetFormat = formatList[2]

\* C10: over a format list without the desired color format, the empty
\* list included, setTargetFormat terminates the process: it never returns,
\* and no property is written and no streaming started afterwards.
C10_NoMatchTerminates ==
  ~HasTargetFormat =>
    /\ ~FormatSelected
    /\ \A i \in DOMAIN hwlog :
         hwlog[i].fn \notin
           {"checkAndSanitizeProperty", "setSingleProperty", "startCamera"}

\* the log positions at which openDevice asked for a device to be opened
Opens == {i \in DOMAIN hwlog : hwlog[i].call = "VRmUsbCamOpenDevice"}

\* the enumerated keys that are not busy
FreeKeys == {k \in DOMAIN deviceList : ~deviceList[k]}

\* C11: openDevice asks only for a key that is not busy to be opened, asks
\* at most once, and then for the lowest-index key that is not busy; the
\* handle it keeps is that key.  When every key is busy or there is none,
\* the process terminates inside openDevice and no call of any later step
\* is issued.
C11_FirstFreeDeviceOpened ==
  /\ Cardinality(Opens) <= 1
  /\ \A i \in Opens :
       /\ hwlog[i].value \in FreeKeys
       /\ \A k \in FreeKeys : hwlog[i].value <= k
  /\ device # 0 => (device \in FreeKeys /\ \A k \in FreeKeys : device <= k)
  /\ FreeKeys = {} =>
       /\ pc \in {"openDevice", "exit"}
       /\ device = 0
       /\ \A i \in DOMAIN hwlog : hwlog[i].fn = "openDevice"

\* the first key was busy, the second was opened, and the camera runs
C11_Witness ==
  /\ pc = "running"
  /\ deviceList = <<TRUE, FALSE>>
  /\ device = 2

\* the caller's image has been filled in by a grabFrame call
FrameProduced == img # NoImage

\* bytes per row of the converted image: the packed row and the padding
Pitch == targetFormat.m_width * BytesPerPixel + hwPad

\* C12: a frame filled in by grabFrame has the width and height of the
\* converted image, step = width * 3, and a buffer resized to, and filled
\* over, exactly height * step bytes, whatever the padding of the source
\* rows.
C12_PackedFrameGeometry ==
  FrameProduced =>
    /\ img.width = targetFormat.m_width
    /\ img.height = targetFormat.m_height
    /\ img.step = img.width * 3
    /\ img.size = img.height * img.step
    /\ Len(img.data) = img.height * img.step

\* two frames were grabbed from a converted image with padded rows
C12_Witness ==
  /\ FrameProduced
  /\ hwPad > 0
  /\ grabs = 2
  /\ pc = "running"
  /\ \A i \in DOMAIN hwlog : hwlog[i].ok

\* C13: output byte y * width * 3 + x is the converted image's byte
\* y * pitch + x for every row y and every x < width * 3; no byte of the
\* padding of a row is copied, and no byte is read at or beyond
\* height * pitch.
C13_ExactRepack ==
  FrameProduced =>
    /\ \A y \in 0..(img.height - 1) :
         \A x \in 0..(img.width * 3 - 1) :
           img.data[y * img.width * 3 + x + 1] = y * Pitch + x
    /\ \A j \in DOMAIN img.data :
         /\ img.data[j] % Pitch < img.width * 3
         /\ img.data[j] < img.height * Pitch

\* a frame of more than one row was repacked from padded rows: the second
\* row starts after the padding of the first
C13_Witness ==
  /\ FrameProduced
  /\ hwPad > 0
  /\ img.height > 1
  /\ img.data[img.width * 3 + 1] = Pitch
  /\ Pitch > img.width * 3

\* one step is a grabFrame call whose lock attempt failed
LockFailedStep ==
  /\ Len(hwlog') > Len(hwlog)
  /\ Added[1].call = "VRmUsbCamLockNextImageEx2"
  /\ ~Added[1].ok

\* C14: a grabFrame call whose lock attempt fails leaves the caller's image
\* as it was, field by field, and neither asks for nor keeps a converted
\* image.
C14_FailedLockLeavesImage ==
  [][LockFailedStep =>
       /\ img' = img
       /\ allocated' = allocated
       /\ \A k \in DOMAIN Added : Added[k].call # "VRmUsbCamNewImage"]_vars

\* the first grab produced a frame, the second failed to lock, and the
\* caller still holds the first frame
C14_Witness ==
  /\ grabs = 2
  /\ Len(hwlog) > 0
  /\ hwlog[Len(hwlog)].call = "VRmUsbCamLockNextImageEx2"
  /\ ~hwlog[Len(hwlog)].ok
  /\ FrameProduced
  /\ img.stamp = 1
  /\ allocated = 0

\* the fields of the caller's image that grabFrame assigns
FrameFields == DOMAIN img

\* the lock call of the grabFrame call that filled in the caller's image
FillingLock ==
  CHOOSE i \in DOMAIN hwlog :
    /\ hwlog[i].call = "VRmUsbCamLockNextImageEx2"
    /\ i + 2 \in DOMAIN hwlog
    /\ hwlog[i + 2].call = "VRmUsbCamConvertImage"
    /\ hwlog[i + 2].ok
    /\ \A j \in DOMAIN hwlog :
         (j > i + 2) => ~(hwlog[j].call = "VRmUsbCamConvertImage" /\ hwlog[j].ok)

\* C15: a frame filled in by grabFrame has a field that holds the count of
\* dropped frames the lock call of that grabFrame call yielded.
C15_FrameCarriesDropped ==
  FrameProduced =>
    /\ "framesDropped" \in FrameFields
    /\ img.framesDropped = hwlog[FillingLock].value

\* C16: once setTargetFormat has returned, no step of the handle (applying
\* the settings, startCamera, grabFrameLeft, grabFrameRight, with or
\* without failing calls) changes targetFormat.
C16_TargetFormatWriteOnce ==
  [][FormatSelected => targetFormat' = targetFormat]_vars

\* after a failed and a successful grabFrame call the format is still the
\* entry setTargetFormat selected
C16_Witness ==
  /\ pc = "running"
  /\ grabs = 2
  /\ FrameProduced
  /\ img.stamp = 2
  /\ \E i \in DOMAIN hwlog :
       hwlog[i].call = "VRmUsbCamLockNextImageEx2" /\ ~hwlog[i].ok
  /\ HasTargetFormat
  /\ targetFormat = formatList[FirstTargetFormat]

\* the lock call of the grabFrame call that issued call i
LockOf(i) ==
  CHOOSE l \in 1..i :
    /\ hwlog[l].call = "VRmUsbCamLockNextImageEx2"
    /\ \A k \in (l + 1)..i : hwlog[k].call # "VRmUsbCamLockNextImageEx2"

\* C17: within a grabFrame call the source lock is released after the
\* conversion and before the repack and the release of the converted
\* image: when VRmUsbCamFreeImage is called, VRmUsbCamUnlockNextImage has
\* already been called, after VRmUsbCamConvertImage, in the same grabFrame
\* call.
C17_UnlockBeforeRepackAndFree ==
  \A i \in DOMAIN hwlog :
    hwlog[i].call = "VRmUsbCamFreeImage" =>
      \E j \in LockOf(i)..i :
        /\ hwlog[j].call = "VRmUsbCamUnlockNextImage"
        /\ \E c \in LockOf(i)..j : hwlog[c].call = "VRmUsbCamConvertImage"

\* the log positions at which streaming was started
Starts == {i \in DOMAIN hwlog : hwlog[i].call = "VRmUsbCamStart"}

\* before position s: a call `call` of function fn was issued for `name`
IssuedBefore(s, fn, call, name) ==
  \E i \in 1..(s - 1) :
    hwlog[i].fn = fn /\ hwlog[i].call = call /\ hwlog[i].name = name

\* the settings whose apply flag is set
EnabledNames ==
  (IF conf.setGain THEN {"gainLeft", "gainRight"} ELSE {})
    \cup (IF conf.setExposure THEN {"exposureLeft", "exposureRight"} ELSE {})

PropOf(name) == IF name \in {"gainLeft", "gainRight"} THEN GAIN ELSE EXPOSURE

\* the order of the constructor's steps before VRmUsbCamStart at position s:
\* device opened, setTargetFormat run to its end, the four settings
\* sanitized, the enabled ones applied, the frame counter reset
StartOrdered(s) ==
  /\ \E i \in 1..(s - 1) : hwlog[i].call = "VRmUsbCamOpenDevice" /\ hwlog[i].ok
  /\ device # 0
  /\ \E i \in 1..(s - 1) :
       /\ hwlog[i].fn = "setTargetFormat"
       /\ hwlog[i].call = "VRmUsbCamGetStringFromColorFormat"
       /\ hwlog[i].ok
  /\ \A n \in LeftNames \cup RightNames :
       IssuedBefore(s, "checkAndSanitizeProperty", AttribsCall(PropOf(n)), n)
  /\ \A n \in EnabledNames :
       IssuedBefore(s, "setSingleProperty", "VRmUsbCamGetPropertyInfo", n)
  /\ hwlog[s - 1].call = "VRmUsbCamResetFrameCounter" /\ hwlog[s - 1].ok
  /\ \A j \in DOMAIN hwlog :
       j > s => hwlog[j].call \notin
                  SetCalls \cup {"VRmUsbCamSetPropertyValueE"}

\* C18: VRmUsbCamStart is issued only with the device open, the target
\* format selected from the format list, the four settings sanitized, the
\* enabled settings applied on both ports and the frame counter reset just
\* before; no property is written after it.
C18_StartAfterInitialization ==
  \A s \in Starts :
    /\ StartOrdered(s)
    /\ HasTargetFormat
    /\ targetFormat = formatList[FirstTargetFormat]

\* checkAndSanitizeConfig has returned
ConfigSanitized ==
  pc \in ApplyLabels \cup {"startCamera", "running"}

\* C19: with setGain false no gain write is ever issued, with setExposure
\* false no exposure write is ever issued, and whatever the flags say all
\* four settings have been through checkAndSanitizeProperty once
\* checkAndSanitizeConfig has returned.
C19_FlagsGateWritesOnly ==
  /\ ~given.setGain =>
       \A i \in DOMAIN hwlog :
         ~(hwlog[i].call = SetCall(GAIN) /\ hwlog[i].prop = GAIN)
  /\ ~given.setExposure =>
       \A i \in DOMAIN hwlog :
         ~(hwlog[i].call = SetCall(EXPOSURE) /\ hwlog[i].prop = EXPOSURE)
  /\ ConfigSanitized =>
       \A n \in LeftNames \cup RightNames :
         \E i \in DOMAIN hwlog :
           /\ hwlog[i].fn = "checkAndSanitizeProperty"
           /\ hwlog[i].call = AttribsCall(PropOf(n))
           /\ hwlog[i].name = n

\* gain was switched off; its configured value was out of range and was
\* replaced by the default, nothing was written for it, and the exposure
\* was written
C19_Witness ==
  /\ pc = "running"
  /\ ~given.setGain
  /\ given.setExposure
  /\ conf.gainLeft # given.gainLeft
  /\ conf.gainLeft = hwAttribs[GAIN][activeSensor].m_default
  /\ \A i \in DOMAIN hwlog : hwlog[i].ok
  /\ \E i \in DOMAIN hwlog : hwlog[i].call = SetCall(EXPOSURE)
====
